---- MODULE Spec2Model ----
(***************************************************************************)
(* A model of the PDF-page-to-audiobook pipeline: the text normalizer      *)
(* (tts.py, clean_text), the chunker (clone_speech.py,                     *)
(* split_text_into_chunks), the text extractor, the hosted synthesis stage *)
(* and the two orchestrating pipelines.                                    *)
(*                                                                         *)
(* A Python str is modelled as a sequence of one-character strings.        *)
(***************************************************************************)
EXTENDS Integers, Sequences, FiniteSets, TLC

(***************************************************************************)
(* Character classes of the regular expressions.                           *)
(***************************************************************************)
LowerSeq == <<"a","b","c","d","e","f","g","h","i","j","k","l","m",
              "n","o","p","q","r","s","t","u","v","w","x","y","z">>
UpperSeq == <<"A","B","C","D","E","F","G","H","I","J","K","L","M",
              "N","O","P","Q","R","S","T","U","V","W","X","Y","Z">>

\* [a-z]
Lower == {LowerSeq[i] : i \in 1..Len(LowerSeq)}
\* [A-Z]
Upper == {UpperSeq[i] : i \in 1..Len(UpperSeq)}
\* [a-zA-Z]
Letter == Lower \cup Upper
\* \d
Digit == {"0","1","2","3","4","5","6","7","8","9"}
\* \s
Space == {" ", "\n", "\t"}
\* [,.!?;:]
Punct == {",", ".", "!", "?", ";", ":"}
\* [.!?], the lookbehind of the sentence-boundary split
SentenceEnd == {".", "!", "?"}
\* the characters kept by [^\w\s.,!?;:\'"()[\]{}\-]: \w is letters, digits, _
\* (the en dash and the em dash of the class are outside the ASCII alphabet
\* of the model)
Whitelist == Letter \cup Digit \cup {"_"} \cup Space \cup Punct
             \cup {"'", "\"", "(", ")", "[", "]", "{", "}", "-"}

\* str.upper() of one character
upper(c) == IF c \in Lower
            THEN UpperSeq[CHOOSE i \in 1..Len(LowerSeq) : LowerSeq[i] = c]
            ELSE c
\* the case folding of re.IGNORECASE, one character
lower(c) == IF c \in Upper
            THEN LowerSeq[CHOOSE i \in 1..Len(UpperSeq) : UpperSeq[i] = c]
            ELSE c

(***************************************************************************)
(* Helpers on strings.                                                     *)
(***************************************************************************)
\* s[i:] of Python with a 1-based i
Drop(s, i) == SubSeq(s, i, Len(s))

\* the length of the maximal run of characters of S that starts at s[i]
RECURSIVE RunLen(_, _, _)
RunLen(s, i, S) ==
    IF i > Len(s) \/ i < 1 THEN 0
    ELSE IF s[i] \in S THEN 1 + RunLen(s, i + 1, S) ELSE 0

\* the length of the maximal run of characters of S that ends at s[i]
RECURSIVE RunLenBack(_, _, _)
RunLenBack(s, i, S) ==
    IF i < 1 \/ i > Len(s) THEN 0
    ELSE IF s[i] \in S THEN 1 + RunLenBack(s, i - 1, S) ELSE 0

\* re.sub(r'X{n,}', r, s) for a character class X: every maximal run of at
\* least n characters of S is replaced by r
RECURSIVE SubRunsFrom(_, _, _, _, _)
SubRunsFrom(s, i, S, n, r) ==
    IF i > Len(s) THEN <<>>
    ELSE LET k == RunLen(s, i, S)
         IN  IF k >= n /\ k >= 1
             THEN r \o SubRunsFrom(s, i + k, S, n, r)
             ELSE <<s[i]>> \o SubRunsFrom(s, i + 1, S, n, r)
SubRuns(s, S, n, r) == SubRunsFrom(s, 1, S, n, r)

\* re.sub(r'([A])([B])', r'\1 \2', s) for disjoint classes A, B: a space
\* goes between every adjacent pair
RECURSIVE InsertSpaceFrom(_, _, _, _)
InsertSpaceFrom(s, i, A, B) ==
    IF i > Len(s) THEN <<>>
    ELSE IF i < Len(s) /\ s[i] \in A /\ s[i + 1] \in B
         THEN <<s[i], " ">> \o InsertSpaceFrom(s, i + 1, A, B)
         ELSE <<s[i]>> \o InsertSpaceFrom(s, i + 1, A, B)
InsertSpace(s, A, B) == InsertSpaceFrom(s, 1, A, B)

\* str.strip()
strip(s) ==
    LET a == RunLen(s, 1, Space)
        b == RunLenBack(s, Len(s), Space)
    IN  IF a = Len(s) THEN <<>> ELSE SubSeq(s, a + 1, Len(s) - b)

\* ' '.join(parts)
RECURSIVE join(_)
join(parts) ==
    IF parts = <<>> THEN <<>>
    ELSE IF Len(parts) = 1 THEN parts[1]
    ELSE parts[1] \o <<" ">> \o join(Tail(parts))

\* re.split(r'(?<=[.!?])\s+', s): the text is cut at every maximal run of
\* whitespace that directly follows one of . ! ?
RECURSIVE SplitFrom(_, _, _)
SplitFrom(s, i, cur) ==
    IF i > Len(s) THEN <<cur>>
    ELSE IF s[i] \in Space /\ i > 1 /\ s[i - 1] \in SentenceEnd
         THEN <<cur>> \o SplitFrom(s, i + RunLen(s, i, Space), <<>>)
         ELSE SplitFrom(s, i + 1, Append(cur, s[i]))
split_sentences(s) == SplitFrom(s, 1, <<>>)

(***************************************************************************)
(* The text normalizer: PDFToSpeech.clean_text, one operator per rule.     *)
(***************************************************************************)
\* re.sub(r'\n+', ' ', text)
CollapseNewlines(s) == SubRuns(s, {"\n"}, 1, <<" ">>)

\* re.sub(r'\s+', ' ', text)
CollapseWhitespace(s) == SubRuns(s, Space, 1, <<" ">>)

\* re.sub(r'^\d+\s*', '', text)
StripLeadingNumber(s) ==
    LET d == RunLen(s, 1, Digit)
    IN  IF d >= 1 THEN Drop(s, d + 1 + RunLen(s, d + 1, Space)) ELSE s

\* re.sub(r'\s*\d+$', '', text): the leftmost match is the trailing run of
\* digits together with the whitespace run before it
StripTrailingNumber(s) ==
    LET d == RunLenBack(s, Len(s), Digit)
        w == RunLenBack(s, Len(s) - d, Space)
    IN  IF d >= 1 THEN SubSeq(s, 1, Len(s) - d - w) ELSE s

\* s starts with pat, ignoring case (pat is given in lower case)
StartsWithIgnoreCase(s, pat) ==
    /\ Len(s) >= Len(pat)
    /\ \A i \in 1..Len(pat) : lower(s[i]) = pat[i]

ChapterPrefix == <<"c","h","a","p","t","e","r"," ">>
LifePrefix == <<"l","i","f","e"," ","3",".","0">>

\* re.sub(r'^(Chapter \d+|CHAPTER \d+|Life 3\.0)', '', text, flags=re.IGNORECASE)
StripHeading(s) ==
    LET d == RunLen(s, Len(ChapterPrefix) + 1, Digit)
    IN  IF StartsWithIgnoreCase(s, ChapterPrefix) /\ d >= 1
        THEN Drop(s, Len(ChapterPrefix) + d + 1)
        ELSE IF StartsWithIgnoreCase(s, LifePrefix)
             THEN Drop(s, Len(LifePrefix) + 1)
             ELSE s

\* the three word-join fixes, in the order of the code
FixJoinedWords(s) ==
    InsertSpace(InsertSpace(InsertSpace(s, Lower, Upper), Letter, Digit),
                Digit, Letter)

\* re.sub(r'\.{3,}', '...', text)
CollapseDots(s) == SubRuns(s, {"."}, 3, <<".", ".", ".">>)

\* re.sub(r'-{2,}', ' -- ', text)
CollapseDashes(s) == SubRuns(s, {"-"}, 2, <<" ", "-", "-", " ">>)

\* re.sub(r'\s+([,.!?;:])', r'\1', text)
RECURSIVE RemoveSpaceBeforePunctFrom(_, _)
RemoveSpaceBeforePunctFrom(s, i) ==
    IF i > Len(s) THEN <<>>
    ELSE LET k == RunLen(s, i, Space)
         IN  IF k >= 1 /\ i + k <= Len(s) /\ s[i + k] \in Punct
             THEN RemoveSpaceBeforePunctFrom(s, i + k)
             ELSE <<s[i]>> \o RemoveSpaceBeforePunctFrom(s, i + 1)
RemoveSpaceBeforePunct(s) == RemoveSpaceBeforePunctFrom(s, 1)

\* re.sub(r'([,.!?;:])\s*', r'\1 ', text)
RECURSIVE SpaceAfterPunctFrom(_, _)
SpaceAfterPunctFrom(s, i) ==
    IF i > Len(s) THEN <<>>
    ELSE IF s[i] \in Punct
         THEN <<s[i], " ">>
              \o SpaceAfterPunctFrom(s, i + 1 + RunLen(s, i + 1, Space))
         ELSE <<s[i]>> \o SpaceAfterPunctFrom(s, i + 1)
SpaceAfterPunct(s) == SpaceAfterPunctFrom(s, 1)

\* re.sub(r'[^\w\s.,!?;:\'"()[\]{}\-]', '', text)
RemoveUnwanted(s) == SelectSeq(s, LAMBDA c : c \in Whitelist)

\* the loop over the sentences: strip each, keep those longer than one
\* character, capitalize the first letter
RECURSIVE CapitalizeSentences(_)
CapitalizeSentences(sentences) ==
    IF sentences = <<>> THEN <<>>
    ELSE LET sentence == strip(Head(sentences))
         IN  IF Len(sentence) > 1
             THEN <<(<<upper(sentence[1])>> \o Tail(sentence))>>
                  \o CapitalizeSentences(Tail(sentences))
             ELSE CapitalizeSentences(Tail(sentences))

clean_text(text) ==
    IF text = <<>> THEN <<>>
    ELSE LET t1 == CollapseWhitespace(CollapseNewlines(text))
             t2 == StripHeading(StripTrailingNumber(StripLeadingNumber(t1)))
             t3 == FixJoinedWords(t2)
             t4 == CollapseDashes(CollapseDots(t3))
             t5 == SpaceAfterPunct(RemoveSpaceBeforePunct(t4))
             t6 == RemoveUnwanted(t5)
             cleaned_sentences == CapitalizeSentences(split_sentences(t6))
         IN  strip(CollapseWhitespace(join(cleaned_sentences)))

(***************************************************************************)
(* The chunker: PDFToSpeechWithVoiceCloning.split_text_into_chunks.        *)
(***************************************************************************)
\* ChunkStep with the limit tested on the sentence alone
ChunkStepSentenceOnly(st, sentence, max_chars) ==
    IF Len(sentence) <= max_chars
    THEN [chunks |-> st.chunks,
          current_chunk |-> st.current_chunk \o sentence \o <<" ">>]
    ELSE [chunks |-> IF st.current_chunk # <<>>
                     THEN Append(st.chunks, strip(st.current_chunk))
                     ELSE st.chunks,
          current_chunk |-> sentence \o <<" ">>]

\* ChunkStep that starts a new chunk without keeping the full one
ChunkStepNoFlush(st, sentence, max_chars) ==
    IF Len(st.current_chunk \o sentence) <= max_chars
    THEN [chunks |-> st.chunks,
          current_chunk |-> st.current_chunk \o sentence \o <<" ">>]
    ELSE [chunks |-> st.chunks,
          current_chunk |-> sentence \o <<" ">>]

\* the loop body: st is the pair of the chunks so far and current_chunk
ChunkStep(st, sentence, max_chars) ==
    IF Len(st.current_chunk \o sentence) <= max_chars
    THEN [chunks |-> st.chunks,
          current_chunk |-> st.current_chunk \o sentence \o <<" ">>]
    ELSE [chunks |-> IF st.current_chunk # <<>>
                     THEN Append(st.chunks, strip(st.current_chunk))
                     ELSE st.chunks,
          current_chunk |-> sentence \o <<" ">>]

RECURSIVE ChunkLoop(_, _, _)
ChunkLoop(st, sentences, max_chars) ==
    IF sentences = <<>> THEN st
    ELSE ChunkLoop(ChunkStep(st, Head(sentences), max_chars),
                   Tail(sentences), max_chars)

split_text_into_chunks(text, max_chars) ==
    LET st == ChunkLoop([chunks |-> <<>>, current_chunk |-> <<>>],
                        split_sentences(text), max_chars)
    IN  IF st.current_chunk # <<>>
        THEN Append(st.chunks, strip(st.current_chunk))
        ELSE st.chunks

(***************************************************************************)
(* Python values and the ways a call ends.                                 *)
(***************************************************************************)
None == [t |-> "None", s |-> <<>>, p |-> ""]
\* a str
Str(x) == [t |-> "str", s |-> x, p |-> ""]
\* a Path inside output_dir
Path(name) == [t |-> "path", s |-> <<>>, p |-> name]

Pending == [kind |-> "pending", value |-> None, exc |-> ""]
Return(v) == [kind |-> "return", value |-> v, exc |-> ""]
Raise(e) == [kind |-> "raise", value |-> None, exc |-> e]

\* a file of output_dir that does not exist
Absent == [present |-> FALSE, data |-> <<>>]
\* a file of output_dir holding data
File(data) == [present |-> TRUE, data |-> data]

\* f with key k set to v (a dict or directory update)
Put(f, k, v) == [x \in DOMAIN f \cup {k} |-> IF x = k THEN v ELSE f[x]]

(***************************************************************************)
(* The text extractor: PDFToSpeech.extract_page_text.                      *)
(* A PDF is [exists, corrupt, pages]: whether the path exists, whether     *)
(* pdfplumber raises on it, and the text layer of each page (<<>> for a    *)
(* page without one).                                                      *)
(***************************************************************************)
\* except Exception as e: print(...); return ""
extract_page_text_except(e) == Return(Str(<<>>))

\* pdf.pages[page_number - 1] with Python's list indexing: the 1-based
\* position of the element, or 0 for an IndexError
PageIndex(total_pages, page_number) ==
    LET i == page_number - 1
    IN  IF i >= 0
        THEN (IF i < total_pages THEN i + 1 ELSE 0)
        ELSE (IF i >= 0 - total_pages THEN total_pages + i + 1 ELSE 0)

\* extract_page_text without the test of an empty text: len(text) raises on
\* the None of a page without a text layer, and the except clause answers
extract_page_text_no_empty_test(pdf, page_number) ==
    IF ~pdf.exists
    THEN [out |-> Raise("FileNotFoundError"), events |-> <<>>]
    ELSE IF pdf.corrupt
    THEN [out |-> extract_page_text_except("PDFSyntaxError"),
          events |-> <<"pdfplumber.open", "error:extract">>]
    ELSE LET total_pages == Len(pdf.pages)
             k == PageIndex(total_pages, page_number)
         IN  IF page_number > total_pages \/ k = 0
             THEN [out |-> extract_page_text_except("IndexError"),
                   events |-> <<"pdfplumber.open", "raise:IndexError",
                                "error:extract">>]
             ELSE IF pdf.pages[k] = <<>>
             THEN [out |-> extract_page_text_except("TypeError"),
                   events |-> <<"pdfplumber.open", "page.extract_text",
                                "error:extract">>]
             ELSE [out |-> Return(Str(pdf.pages[k])),
                   events |-> <<"pdfplumber.open", "page.extract_text">>]

extract_page_text(pdf, page_number) ==
    IF ~pdf.exists
    THEN [out |-> Raise("FileNotFoundError"), events |-> <<>>]
    ELSE IF pdf.corrupt
    THEN [out |-> extract_page_text_except("PDFSyntaxError"),
          events |-> <<"pdfplumber.open", "error:extract">>]
    ELSE LET total_pages == Len(pdf.pages)
             k == PageIndex(total_pages, page_number)
         IN  IF page_number > total_pages \/ k = 0
             THEN [out |-> extract_page_text_except("IndexError"),
                   events |-> <<"pdfplumber.open", "raise:IndexError",
                                "error:extract">>]
             ELSE IF pdf.pages[k] = <<>>
             THEN [out |-> Return(Str(<<>>)),
                   events |-> <<"pdfplumber.open", "page.extract_text",
                                "warn:no_text">>]
             ELSE [out |-> Return(Str(pdf.pages[k])),
                   events |-> <<"pdfplumber.open", "page.extract_text">>]

(***************************************************************************)
(* The hosted synthesis stage: PDFToSpeech.text_to_speech.                 *)
(***************************************************************************)
\* text_to_speech_guard without the check of the text
text_to_speech_guard_voice_only(text, voice_id) ==
    IF voice_id = "" THEN "ValueError" ELSE "ok"

\* the two checks before the try block: the exception raised, or "ok"
text_to_speech_guard(text, voice_id) ==
    IF strip(text) = <<>> THEN "ValueError"
    ELSE IF voice_id = "" THEN "ValueError"
    ELSE "ok"

\* text_to_speech without its except clause: the exception propagates
text_to_speech_reraise(e) == Raise(e)

\* except Exception as e: print(...); return None
text_to_speech_except(e) == Return(None)

\* the fixed name of the audio file
AudioFileName == "life3_page_audio.mp3"

(***************************************************************************)
(* The hosted pipeline: PDFToSpeech.process_pdf_page.                      *)
(***************************************************************************)
\* process_pdf_page without its except clause
process_pdf_page_reraise(e) == Raise(e)

\* except Exception as e: print(...); return None
process_pdf_page_except(e) == Return(None)

\* a sidecar name that does not hold the page number
sidecar_key_fixed(page_number) == 1

\* text_file = self.output_dir / f"page_{page_number}_text.txt": the name is
\* fixed by the page number, which stands for it in the directory
sidecar_key(page_number) == page_number

\* process_pdf_page without the saving of the cleaned text
write_sidecar_skipped(files, page_number, cleaned) == files

\* with open(text_file, 'w') as f: f.write(cleaned_text), on the directory
\* of sidecar files keyed by page number
write_sidecar(files, page_number, cleaned) ==
    Put(files, sidecar_key(page_number), cleaned)

(***************************************************************************)
(* The cloned-voice side: PDFToSpeechWithVoiceCloning.                     *)
(* A text file is [exists, readable, content]; a reference recording is    *)
(* [exists, torchaudio, soundfile, ffmpeg, postprocess]: whether the path  *)
(* exists, which of the three ways of loading it succeed, and whether the  *)
(* downmixing, resampling and saving after it succeed.                     *)
(***************************************************************************)
\* except Exception as e: print(...); return ""
load_text_from_file_except(e) == Return(Str(<<>>))

load_text_from_file(text_file) ==
    IF ~text_file.exists
    THEN [out |-> Raise("FileNotFoundError"), events |-> <<>>]
    ELSE IF ~text_file.readable
    THEN [out |-> load_text_from_file_except("OSError"),
          events |-> <<"open:text_file", "error:load_text">>]
    ELSE IF strip(text_file.content) = <<>>
    THEN [out |-> Return(Str(<<>>)),
          events |-> <<"open:text_file", "read:text_file", "warn:empty_text_file">>]
    ELSE [out |-> Return(Str(strip(text_file.content))),
          events |-> <<"open:text_file", "read:text_file">>]

\* the name of the prepared reference sample and of the transcoded one
ProcessedFileName == "processed_ref.wav"
ConvertedFileName == "converted_ref.wav"

\* the cascade of the three ways of loading the reference recording: the
\* attempts made, in order, and whether a waveform was loaded
\* the cascade without its nesting: every method is tried
load_reference_try_all(ref) ==
    [loaded |-> ref.torchaudio \/ ref.soundfile \/ ref.ffmpeg,
     events |-> <<"torchaudio.load", "soundfile.read",
                  "convert_audio_format", "torchaudio.load:converted">>,
     files |-> IF ref.ffmpeg THEN {ConvertedFileName} ELSE {}]

load_reference(ref) ==
    IF ref.torchaudio
    THEN [loaded |-> TRUE, events |-> <<"torchaudio.load">>, files |-> {}]
    ELSE IF ref.soundfile
    THEN [loaded |-> TRUE, events |-> <<"torchaudio.load", "soundfile.read">>,
          files |-> {}]
    ELSE [loaded |-> ref.ffmpeg,
          events |-> <<"torchaudio.load", "soundfile.read",
                       "convert_audio_format", "torchaudio.load:converted">>,
          files |-> IF ref.ffmpeg THEN {ConvertedFileName} ELSE {}]

\* except Exception as e: print(...); return None
prepare_reference_audio_except(e) == Return(None)

prepare_reference_audio(ref) ==
    IF ~ref.exists
    THEN [out |-> Raise("FileNotFoundError"), events |-> <<>>, files |-> {}]
    ELSE LET l == load_reference(ref)
         IN  IF ~l.loaded
             THEN [out |-> Return(None),
                   events |-> l.events \o <<"error:all_methods_failed">>,
                   files |-> l.files]
             ELSE IF ~ref.postprocess
             THEN [out |-> prepare_reference_audio_except("RuntimeError"),
                   events |-> l.events \o <<"error:prepare_reference">>,
                   files |-> l.files]
             ELSE [out |-> Return(Path(ProcessedFileName)),
                   events |-> l.events \o <<"torchaudio.save">>,
                   files |-> l.files \cup {ProcessedFileName}]

\* the check before the reference is prepared: the exception raised, or "ok"
clone_voice_and_generate_guard(text) ==
    IF strip(text) = <<>> THEN "ValueError" ELSE "ok"

\* except Exception as e: print(...); return None
clone_voice_and_generate_except(e) == Return(None)

\* max_chars = 250  # Conservative limit for XTTS
max_chars_xtts == 250

\* the fixed name of the cloned audio file
ClonedFileName == "cloned_voice_output.wav"

\* np.concatenate(audio_segments)
RECURSIVE concatenate(_)
concatenate(segments) ==
    IF segments = <<>> THEN <<>>
    ELSE Head(segments) \o concatenate(Tail(segments))

\* process_text_with_voice_clone without its except clause
process_text_with_voice_clone_reraise(e) == Raise(e)

\* except Exception as e: print(...); return None
process_text_with_voice_clone_except(e) == Return(None)

(***************************************************************************)
(* Bounds and input sets of the two pure functions.                        *)
(***************************************************************************)
\* the longest text given to the chunker
MaxChunkTextLen == 6
\* the largest chunk limit given to the chunker
MaxLimit == 4
\* the longest enumerated text given to the normalizer
MaxCleanTextLen == 4

\* all strings over the alphabet A of length at most n
Strings(A, n) == UNION {[1..k -> A] : k \in 0..n}

ChunkAlphabet == {"a", ".", " ", "\n"}
\* two short sentences and a long one: . . aaaaa
PackedThenLongRaw == <<".", " ", ".", " ", "a", "a", "a", "a", "a">>
ChunkTexts == Strings(ChunkAlphabet, MaxChunkTextLen) \cup {PackedThenLongRaw}
Limits == 0..MaxLimit

CleanAlphabet == {"a", "B", "1", ".", " ", "-", "#", "\n"}
\* the scenario of the normalizer: hello World123 test...   end
ScenarioRaw ==
    <<"h","e","l","l","o"," ","W","o","r","l","d","1","2","3"," ",
      "t","e","s","t",".",".","."," "," "," ","e","n","d">>
\* Chapter 12 ab. cd
HeadingRaw ==
    <<"C","h","a","p","t","e","r"," ","1","2"," ","a","b","."," ","c","d">>
\* LIFE 3.0 is ok
TitleRaw == <<"L","I","F","E"," ","3",".","0"," ","i","s"," ","o","k">>
\* 12 34 ab
TwoNumbersRaw == <<"1","2"," ","3","4"," ","a","b">>
CleanTexts == Strings(CleanAlphabet, MaxCleanTextLen)
              \cup {ScenarioRaw, HeadingRaw, TitleRaw, TwoNumbersRaw}

(***************************************************************************)
(* State.                                                                  *)
(***************************************************************************)
VARIABLES
    in_text,        \* the text handed to the pure function under check
    in_max_chars,   \* the max_chars handed to split_text_into_chunks
    out_chunks,     \* the list split_text_into_chunks returned
    out_cleaned,    \* clean_text(in_text)
    out_recleaned,  \* clean_text(clean_text(in_text))
    fn_pc           \* "start", "chunked", "cleaned", "recleaned"

fn_vars == <<in_text, in_max_chars, out_chunks, out_cleaned, out_recleaned, fn_pc>>

VARIABLES
    entry,          \* the function the caller invoked
    pc,             \* the position of the run
    args,           \* the arguments of the call and the files they name
    raw_text,       \* process_pdf_page: raw_text
    cleaned_text,   \* process_pdf_page: cleaned_text
    speech_text,    \* the text parameter of the synthesis stage
    audio,          \* text_to_speech: the audio the API returned
    audio_path,     \* text_to_speech: audio_path
    sidecar,        \* output_dir: page number -> content of page_<n>_text.txt
    audio_file,     \* output_dir: life3_page_audio.mp3
    log,            \* the calls made and the messages printed, in order
    result,         \* how the call ended
    ref_audio_path, \* clone_voice_and_generate: ref_audio_path
    text_chunks,    \* clone_voice_and_generate: text_chunks
    chunk_i,        \* clone_voice_and_generate: the chunk the loop is at
    audio_segments, \* clone_voice_and_generate: audio_segments
    ref_files,      \* output_dir: the reference files written, by name
    cloned_file,    \* output_dir: cloned_voice_output.wav
    api_key,        \* the environment holds ELEVENLABS_API_KEY
    converter,      \* the class of the object constructed, "none" before
    runs            \* two concurrent invocations of process_pdf_page

hosted_vars == <<raw_text, cleaned_text, audio, sidecar, audio_file>>
clone_vars == <<ref_audio_path, text_chunks, chunk_i, audio_segments,
                ref_files, cloned_file>>
env_vars == <<api_key, converter>>
race_vars == <<runs>>
pipe_vars == <<entry, pc, args, speech_text, audio_path, log, result,
               hosted_vars, clone_vars, env_vars, race_vars>>

vars == <<fn_vars, pipe_vars>>

FnIdle ==
    /\ in_text = <<>>
    /\ in_max_chars = 0
    /\ out_chunks = <<>>
    /\ out_cleaned = <<>>
    /\ out_recleaned = <<>>
    /\ fn_pc = "idle"

\* the longest document, in pages
MaxPages == 2

\* a page without a text layer, a page of prose, a page holding only its
\* page number
NoTextLayer == <<>>
ProsePage == <<"a", "b", ".", " ", "c", "d">>
NumberOnlyPage == <<"7">>
PageTexts == {NoTextLayer, ProsePage, NumberOnlyPage}

MissingPdf == [exists |-> FALSE, corrupt |-> FALSE, pages |-> <<>>]
CorruptPdf == [exists |-> TRUE, corrupt |-> TRUE, pages |-> <<>>]
Pdfs == {MissingPdf, CorruptPdf}
        \cup {[exists |-> TRUE, corrupt |-> FALSE, pages |-> ps] :
                ps \in UNION {[1..n -> PageTexts] : n \in 0..MaxPages}}
PageNumbers == (0 - MaxPages)..(MaxPages + 1)

\* voice_id: "" stands for None and for the empty string, both false
VoiceIds == {"", "JBFqnCBsd6RMkjVDRZzb"}
\* the texts handed to a synthesis stage called on its own
SpeechTexts == {<<>>, <<" ", "\n">>, <<"A", "b", ".", " ", "C", "d">>}

\* what output_dir holds of an earlier run
StaleText == <<"O", "l", "d">>
InitialSidecars == {<<>>, Put(<<>>, 1, StaleText)}
InitialAudioFiles == {Absent, File(StaleText)}

\* the text files and the reference recordings a caller may name
FileTexts == {<<>>, <<" ", "\n">>, <<"A", "b", ".", " ", "C", "d", "\n">>}
MissingTextFile == [exists |-> FALSE, readable |-> FALSE, content |-> <<>>]
UnreadableTextFile == [exists |-> TRUE, readable |-> FALSE, content |-> <<>>]
TextFiles == {MissingTextFile, UnreadableTextFile}
             \cup {[exists |-> TRUE, readable |-> TRUE, content |-> c] :
                     c \in FileTexts}
MissingReference == [exists |-> FALSE, torchaudio |-> FALSE, soundfile |-> FALSE,
                     ffmpeg |-> FALSE, postprocess |-> FALSE]
References == {MissingReference}
              \cup [exists : {TRUE}, torchaudio : BOOLEAN, soundfile : BOOLEAN,
                    ffmpeg : BOOLEAN, postprocess : BOOLEAN]
\* what the local model returns for a chunk: a waveform, an empty waveform,
\* or an exception
ModelOutcomes == {"wav", "empty", "error"}

NoArgs == [pdf |-> MissingPdf, page_number |-> 0, voice_id |-> "",
           play_audio |-> FALSE, save_audio |-> FALSE,
           text_file |-> MissingTextFile, reference_audio |-> MissingReference]

\* the two invocations that share output_dir
Procs == {1, 2}

\* an invocation not yet made
IdleRun == [pc |-> "idle", page_number |-> 0, voice_id |-> "",
            play_audio |-> FALSE, raw_text |-> <<>>, cleaned_text |-> <<>>,
            audio |-> <<>>, result |-> Pending]

PipeIdle ==
    /\ runs = [p \in Procs |-> IdleRun]
    /\ entry = "none"
    /\ pc = "idle"
    /\ args = NoArgs
    /\ raw_text = <<>>
    /\ cleaned_text = <<>>
    /\ speech_text = <<>>
    /\ audio = <<>>
    /\ audio_path = None
    /\ sidecar = <<>>
    /\ audio_file = Absent
    /\ log = <<>>
    /\ result = Pending
    /\ ref_audio_path = None
    /\ text_chunks = <<>>
    /\ chunk_i = 0
    /\ audio_segments = <<>>
    /\ ref_files = {}
    /\ cloned_file = Absent
    /\ api_key = FALSE
    /\ converter = "none"

(***************************************************************************)
(* The chunker applied to every bounded text and limit.                    *)
(***************************************************************************)
ChunkInit ==
    /\ PipeIdle
    /\ in_text \in ChunkTexts
    /\ in_max_chars \in Limits
    /\ out_chunks = <<>>
    /\ out_cleaned = <<>>
    /\ out_recleaned = <<>>
    /\ fn_pc = "start"

CallSplit ==
    /\ fn_pc = "start"
    /\ out_chunks' = split_text_into_chunks(in_text, in_max_chars)
    /\ fn_pc' = "chunked"
    /\ UNCHANGED <<in_text, in_max_chars, out_cleaned, out_recleaned>>
    /\ UNCHANGED pipe_vars

ChunkNext == CallSplit

SpecChunk == ChunkInit /\ [][ChunkNext]_vars

(***************************************************************************)
(* The normalizer applied to every bounded text, and to its own result.    *)
(***************************************************************************)
CleanInit ==
    /\ PipeIdle
    /\ in_text \in CleanTexts
    /\ in_max_chars = 0
    /\ out_chunks = <<>>
    /\ out_cleaned = <<>>
    /\ out_recleaned = <<>>
    /\ fn_pc = "start"

CallClean ==
    /\ fn_pc = "start"
    /\ out_cleaned' = clean_text(in_text)
    /\ fn_pc' = "cleaned"
    /\ UNCHANGED <<in_text, in_max_chars, out_chunks, out_recleaned>>
    /\ UNCHANGED pipe_vars

CallCleanAgain ==
    /\ fn_pc = "cleaned"
    /\ out_recleaned' = clean_text(out_cleaned)
    /\ fn_pc' = "recleaned"
    /\ UNCHANGED <<in_text, in_max_chars, out_chunks, out_cleaned>>
    /\ UNCHANGED pipe_vars

CleanNext == CallClean \/ CallCleanAgain

SpecClean == CleanInit /\ [][CleanNext]_vars

(***************************************************************************)
(* The pipelines, one run from an output directory an earlier run may have *)
(* written to.                                                             *)
(***************************************************************************)
Init ==
    /\ FnIdle
    /\ entry = "none"
    /\ pc = "idle"
    /\ args = NoArgs
    /\ raw_text = <<>>
    /\ cleaned_text = <<>>
    /\ speech_text = <<>>
    /\ audio = <<>>
    /\ audio_path = None
    /\ sidecar \in InitialSidecars
    /\ audio_file \in InitialAudioFiles
    /\ log = <<>>
    /\ result = Pending
    /\ ref_audio_path = None
    /\ text_chunks = <<>>
    /\ chunk_i = 0
    /\ audio_segments = <<>>
    /\ ref_files = {}
    /\ cloned_file \in InitialAudioFiles
    /\ api_key \in BOOLEAN
    /\ converter = "none"
    /\ runs = [p \in Procs |-> IdleRun]

\* PDFToSpeech(): the client is built from whatever os.getenv returns, and
\* the constructor has no check of its own; the client library, which is
\* not part of the repository, may take a None key or refuse it
ConstructPDFToSpeech ==
    /\ pc = "idle"
    /\ converter = "none"
    /\ \E accepted \in BOOLEAN :
        IF api_key \/ accepted
        THEN /\ converter' = "PDFToSpeech"
             /\ UNCHANGED <<entry, pc, result>>
        ELSE /\ converter' = converter
             /\ entry' = "PDFToSpeech.__init__"
             /\ result' = Raise("ClientError")
             /\ pc' = "done"
    /\ UNCHANGED <<fn_vars, race_vars, hosted_vars, clone_vars, api_key, args,
                   speech_text, audio_path, log>>

\* ElevenLabsVoiceCloning(): if not self.api_key: raise ValueError(...)
ElevenLabsVoiceCloning_init(key) ==
    IF key THEN Return(None) ELSE Raise("ValueError")

ConstructElevenLabsVoiceCloning ==
    /\ pc = "idle"
    /\ converter = "none"
    /\ LET r == ElevenLabsVoiceCloning_init(api_key)
       IN  IF r.kind = "return"
           THEN /\ converter' = "ElevenLabsVoiceCloning"
                /\ UNCHANGED <<entry, pc, result>>
           ELSE /\ converter' = converter
                /\ entry' = "ElevenLabsVoiceCloning.__init__"
                /\ result' = r
                /\ pc' = "done"
    /\ UNCHANGED <<fn_vars, race_vars, hosted_vars, clone_vars, api_key, args,
                   speech_text, audio_path, log>>

\* PDFToSpeechWithVoiceCloning(): setup_tts_model loads the model and raises
\* again what the load raised
ConstructPDFToSpeechWithVoiceCloning ==
    /\ pc = "idle"
    /\ converter = "none"
    /\ \E loaded \in BOOLEAN :
        IF loaded
        THEN /\ converter' = "PDFToSpeechWithVoiceCloning"
             /\ UNCHANGED <<entry, pc, result>>
        ELSE /\ converter' = converter
             /\ entry' = "PDFToSpeechWithVoiceCloning.__init__"
             /\ result' = Raise("ModelLoadError")
             /\ pc' = "done"
    /\ UNCHANGED <<fn_vars, race_vars, hosted_vars, clone_vars, api_key, args,
                   speech_text, audio_path, log>>

\* the caller invokes extract_page_text
CallExtractPageText ==
    /\ pc = "idle"
    /\ converter = "PDFToSpeech"
    /\ UNCHANGED <<fn_vars, race_vars, env_vars, clone_vars>>
    /\ \E pdf \in Pdfs, n \in PageNumbers :
        args' = [NoArgs EXCEPT !.pdf = pdf, !.page_number = n]
    /\ entry' = "extract_page_text"
    /\ pc' = "extract"
    /\ UNCHANGED <<raw_text, cleaned_text, speech_text, audio, audio_path,
                   sidecar, audio_file, log, result>>

\* the caller invokes text_to_speech
CallTextToSpeech ==
    /\ pc = "idle"
    /\ converter = "PDFToSpeech"
    /\ UNCHANGED <<fn_vars, race_vars, env_vars, clone_vars>>
    /\ \E t \in SpeechTexts, v \in VoiceIds, play \in BOOLEAN, save \in BOOLEAN :
        /\ args' = [NoArgs EXCEPT !.voice_id = v, !.play_audio = play,
                                  !.save_audio = save]
        /\ speech_text' = t
    /\ entry' = "text_to_speech"
    /\ pc' = "tts_guard"
    /\ UNCHANGED <<raw_text, cleaned_text, audio, audio_path, sidecar,
                   audio_file, log, result>>

\* the caller invokes process_pdf_page; text_to_speech is called with its
\* default save_audio=True
CallProcessPdfPage ==
    /\ pc = "idle"
    /\ converter = "PDFToSpeech"
    /\ UNCHANGED <<fn_vars, race_vars, env_vars, clone_vars>>
    /\ \E pdf \in Pdfs, n \in PageNumbers, v \in VoiceIds, play \in BOOLEAN :
        args' = [NoArgs EXCEPT !.pdf = pdf, !.page_number = n, !.voice_id = v,
                              !.play_audio = play, !.save_audio = TRUE]
    /\ entry' = "process_pdf_page"
    /\ pc' = "extract"
    /\ UNCHANGED <<raw_text, cleaned_text, speech_text, audio, audio_path,
                   sidecar, audio_file, log, result>>

\* how the run ends when a stage ends with out: a stage called on its own
\* hands out to its caller, a pipeline turns a raised exception into None
Outcome(out) ==
    IF out.kind = "raise" /\ entry = "process_pdf_page"
    THEN process_pdf_page_except(out.exc)
    ELSE IF out.kind = "raise" /\ entry = "process_text_with_voice_clone"
    THEN process_text_with_voice_clone_except(out.exc)
    ELSE out

\* extract_page_text, and in the pipeline the test of raw_text after it
ExtractPageText ==
    /\ pc = "extract"
    /\ UNCHANGED <<fn_vars, race_vars, env_vars, clone_vars>>
    /\ LET r == extract_page_text(args.pdf, args.page_number)
       IN  /\ log' = log \o <<"extract_page_text">> \o r.events
           /\ IF entry \in {"extract_page_text", "app.coqui_extract"}
                 \/ r.out.kind = "raise"
              THEN /\ result' = Outcome(r.out)
                   /\ pc' = "done"
                   /\ UNCHANGED raw_text
              ELSE /\ raw_text' = r.out.value.s
                   /\ IF r.out.value.s = <<>>
                      THEN result' = Return(None) /\ pc' = "done"
                      ELSE result' = result /\ pc' = "clean"
    /\ UNCHANGED <<entry, args, cleaned_text, speech_text, audio, audio_path,
                   sidecar, audio_file>>

\* clean_text in the pipeline, and the test of cleaned_text after it
CleanText ==
    /\ pc = "clean"
    /\ UNCHANGED <<fn_vars, race_vars, env_vars, clone_vars>>
    /\ cleaned_text' = clean_text(raw_text)
    /\ log' = Append(log, "clean_text")
    /\ IF cleaned_text' = <<>>
       THEN result' = Return(None) /\ pc' = "done"
       ELSE result' = result /\ pc' = "sidecar"
    /\ UNCHANGED <<entry, args, raw_text, speech_text, audio, audio_path,
                   sidecar, audio_file>>

\* the cleaned text is saved for review, then text_to_speech is called
WriteSidecar ==
    /\ pc = "sidecar"
    /\ UNCHANGED <<fn_vars, race_vars, env_vars, clone_vars>>
    /\ sidecar' = write_sidecar(sidecar, args.page_number, cleaned_text)
    /\ log' = Append(log, "write_sidecar")
    /\ speech_text' = cleaned_text
    /\ pc' = "tts_guard"
    /\ UNCHANGED <<entry, args, raw_text, cleaned_text, audio, audio_path,
                   audio_file, result>>

\* text_to_speech: the checks of text and voice_id
TtsGuard ==
    /\ pc = "tts_guard"
    /\ UNCHANGED <<fn_vars, race_vars, env_vars, clone_vars>>
    /\ log' = Append(log, "text_to_speech")
    /\ LET g == text_to_speech_guard(speech_text, args.voice_id)
       IN  IF g = "ok"
           THEN result' = result /\ pc' = "convert"
           ELSE result' = Outcome(Raise(g)) /\ pc' = "done"
    /\ UNCHANGED <<entry, args, raw_text, cleaned_text, speech_text, audio,
                   audio_path, sidecar, audio_file>>

\* text_to_speech: the call of the hosted API, which may fail, and which
\* fails when the client was built without a key
TtsConvert ==
    /\ pc = "convert"
    /\ UNCHANGED <<fn_vars, race_vars, env_vars, clone_vars>>
    /\ \E ok \in BOOLEAN :
        IF ok /\ api_key
        THEN /\ log' = Append(log, "api.convert")
             /\ audio' = speech_text
             /\ result' = result
             /\ pc' = "save"
        ELSE /\ log' = log \o <<"api.convert", "error:api.convert">>
             /\ audio' = audio
             /\ result' = Outcome(text_to_speech_except("ApiError"))
             /\ pc' = "done"
    /\ UNCHANGED <<entry, args, raw_text, cleaned_text, speech_text,
                   audio_path, sidecar, audio_file>>

\* text_to_speech: the audio is saved if requested; saving may fail
TtsSave ==
    /\ pc = "save"
    /\ UNCHANGED <<fn_vars, race_vars, env_vars, clone_vars>>
    /\ IF args.save_audio
       THEN \E ok \in BOOLEAN :
            IF ok
            THEN /\ log' = Append(log, "save")
                 /\ audio_file' = File(audio)
                 /\ audio_path' = Path(AudioFileName)
                 /\ result' = result
                 /\ pc' = "play"
            ELSE /\ log' = log \o <<"save", "error:save">>
                 /\ audio_file' = audio_file
                 /\ audio_path' = audio_path
                 /\ result' = Outcome(text_to_speech_except("SaveError"))
                 /\ pc' = "done"
       ELSE /\ pc' = "play"
            /\ UNCHANGED <<log, audio_file, audio_path, result>>
    /\ UNCHANGED <<entry, args, raw_text, cleaned_text, speech_text, audio,
                   sidecar>>

\* text_to_speech: the audio is played if requested; playing may fail;
\* then audio_path is returned
TtsPlay ==
    /\ pc = "play"
    /\ UNCHANGED <<fn_vars, race_vars, env_vars, clone_vars>>
    /\ IF args.play_audio
       THEN \E ok \in BOOLEAN :
            IF ok
            THEN /\ log' = Append(log, "play")
                 /\ result' = Outcome(Return(audio_path))
            ELSE /\ log' = log \o <<"play", "error:play">>
                 /\ result' = Outcome(text_to_speech_except("PlayError"))
       ELSE /\ log' = log
            /\ result' = Outcome(Return(audio_path))
    /\ pc' = "done"
    /\ UNCHANGED <<entry, args, raw_text, cleaned_text, speech_text, audio,
                   audio_path, sidecar, audio_file>>

\* the caller invokes clone_voice_and_generate
CallCloneVoiceAndGenerate ==
    /\ pc = "idle"
    /\ converter = "PDFToSpeechWithVoiceCloning"
    /\ UNCHANGED <<fn_vars, race_vars, env_vars, hosted_vars>>
    /\ \E t \in SpeechTexts, ref \in References, save \in BOOLEAN :
        /\ args' = [NoArgs EXCEPT !.reference_audio = ref, !.save_audio = save]
        /\ speech_text' = t
    /\ entry' = "clone_voice_and_generate"
    /\ pc' = "clone_guard"
    /\ UNCHANGED <<audio_path, log, result, clone_vars>>

\* the methods class PDFToSpeechWithVoiceCloning defines; it has no base class
PDFToSpeechWithVoiceCloning_methods ==
    {"__init__", "clear_model_cache", "setup_tts_model", "load_text_from_file",
     "prepare_reference_audio", "convert_audio_format",
     "clone_voice_and_generate", "split_text_into_chunks",
     "process_text_with_voice_clone"}

\* converter.<name> on an object of the cloning class
cloner_getattr(name) ==
    IF name \in PDFToSpeechWithVoiceCloning_methods
    THEN Return(Str(<<>>))
    ELSE Raise("AttributeError")

\* app.py, engine "Coqui TTS", button "Extract & Convert": after the
\* converter is constructed, converter.extract_page_text(pdf_path,
\* page_number) is evaluated; the page number widget has min_value=1
AppCoquiExtract ==
    /\ pc = "idle"
    /\ converter = "PDFToSpeechWithVoiceCloning"
    /\ UNCHANGED <<fn_vars, race_vars, env_vars, hosted_vars>>
    /\ \E pdf \in Pdfs, n \in 1..(MaxPages + 1) :
        args' = [NoArgs EXCEPT !.pdf = pdf, !.page_number = n]
    /\ entry' = "app.coqui_extract"
    /\ LET m == cloner_getattr("extract_page_text")
       IN  IF m.kind = "raise"
           THEN result' = m /\ pc' = "done"
           ELSE result' = result /\ pc' = "extract"
    /\ UNCHANGED <<speech_text, audio_path, log, clone_vars>>

\* the caller invokes prepare_reference_audio
CallPrepareReferenceAudio ==
    /\ pc = "idle"
    /\ converter = "PDFToSpeechWithVoiceCloning"
    /\ UNCHANGED <<fn_vars, race_vars, env_vars, hosted_vars>>
    /\ \E ref \in References :
        args' = [NoArgs EXCEPT !.reference_audio = ref]
    /\ entry' = "prepare_reference_audio"
    /\ pc' = "prepare"
    /\ UNCHANGED <<speech_text, audio_path, log, result, clone_vars>>

\* the caller invokes process_text_with_voice_clone; clone_voice_and_generate
\* is called with its default save_audio=True
CallProcessTextWithVoiceClone ==
    /\ pc = "idle"
    /\ converter = "PDFToSpeechWithVoiceCloning"
    /\ UNCHANGED <<fn_vars, race_vars, env_vars, hosted_vars>>
    /\ \E f \in TextFiles, ref \in References :
        args' = [NoArgs EXCEPT !.text_file = f, !.reference_audio = ref,
                              !.save_audio = TRUE]
    /\ entry' = "process_text_with_voice_clone"
    /\ pc' = "load_text"
    /\ UNCHANGED <<speech_text, audio_path, log, result, clone_vars>>

\* load_text_from_file in the pipeline, and the test of cleaned_text after it
LoadText ==
    /\ pc = "load_text"
    /\ UNCHANGED <<fn_vars, race_vars, env_vars, hosted_vars>>
    /\ LET r == load_text_from_file(args.text_file)
       IN  /\ log' = log \o <<"load_text_from_file">> \o r.events
           /\ IF r.out.kind = "raise"
              THEN /\ result' = Outcome(r.out)
                   /\ pc' = "done"
                   /\ UNCHANGED speech_text
              ELSE /\ speech_text' = r.out.value.s
                   /\ IF r.out.value.s = <<>>
                      THEN result' = Return(None) /\ pc' = "done"
                      ELSE result' = result /\ pc' = "clone_guard"
    /\ UNCHANGED <<entry, args, audio_path, clone_vars>>

\* clone_voice_and_generate: the check of text
CloneGuard ==
    /\ pc = "clone_guard"
    /\ UNCHANGED <<fn_vars, race_vars, env_vars, hosted_vars>>
    /\ log' = Append(log, "clone_voice_and_generate")
    /\ LET g == clone_voice_and_generate_guard(speech_text)
       IN  IF g = "ok"
           THEN result' = result /\ pc' = "prepare"
           ELSE result' = Outcome(Raise(g)) /\ pc' = "done"
    /\ UNCHANGED <<entry, args, speech_text, audio_path, clone_vars>>

\* prepare_reference_audio; in clone_voice_and_generate it is called before
\* the try block, and the test of ref_audio_path and the split of the text
\* into chunks follow it
PrepareReference ==
    /\ pc = "prepare"
    /\ UNCHANGED <<fn_vars, race_vars, env_vars, hosted_vars>>
    /\ LET r == prepare_reference_audio(args.reference_audio)
       IN  /\ log' = log \o <<"prepare_reference_audio">> \o r.events
           /\ ref_files' = ref_files \cup r.files
           /\ IF entry = "prepare_reference_audio"
                 \/ r.out.kind = "raise" \/ r.out.value = None
              THEN /\ result' = Outcome(r.out)
                   /\ pc' = "done"
                   /\ UNCHANGED <<ref_audio_path, text_chunks, chunk_i>>
              ELSE /\ ref_audio_path' = r.out.value
                   /\ text_chunks' = split_text_into_chunks(speech_text, max_chars_xtts)
                   /\ chunk_i' = 1
                   /\ result' = result
                   /\ pc' = "chunks"
    /\ UNCHANGED <<entry, args, speech_text, audio_path, audio_segments,
                   cloned_file>>

\* clone_voice_and_generate: one turn of the loop over the chunks; the local
\* model may fail
SynthesizeChunk ==
    /\ pc = "chunks"
    /\ UNCHANGED <<fn_vars, race_vars, env_vars, hosted_vars>>
    /\ chunk_i <= Len(text_chunks)
    /\ IF strip(text_chunks[chunk_i]) = <<>>
       THEN /\ chunk_i' = chunk_i + 1
            /\ UNCHANGED <<log, audio_segments, result, pc>>
       ELSE \E m \in ModelOutcomes :
            IF m = "error"
            THEN /\ log' = log \o <<"tts.tts", "error:tts.tts">>
                 /\ result' = Outcome(clone_voice_and_generate_except("RuntimeError"))
                 /\ pc' = "done"
                 /\ UNCHANGED <<chunk_i, audio_segments>>
            ELSE /\ log' = Append(log, "tts.tts")
                 /\ audio_segments' =
                        Append(audio_segments,
                               IF m = "wav" THEN text_chunks[chunk_i] ELSE <<>>)
                 /\ chunk_i' = chunk_i + 1
                 /\ UNCHANGED <<result, pc>>
    /\ UNCHANGED <<entry, args, speech_text, audio_path, ref_audio_path,
                   text_chunks, ref_files, cloned_file>>

\* clone_voice_and_generate: after the loop the segments are combined and
\* saved if requested
CombineSegments ==
    /\ pc = "chunks"
    /\ UNCHANGED <<fn_vars, race_vars, env_vars, hosted_vars>>
    /\ chunk_i > Len(text_chunks)
    /\ IF audio_segments # <<>>
       THEN IF args.save_audio
            THEN /\ cloned_file' = File(concatenate(audio_segments))
                 /\ audio_path' = Path(ClonedFileName)
                 /\ log' = Append(log, "sf.write")
                 /\ result' = Outcome(Return(Path(ClonedFileName)))
            ELSE /\ result' = Outcome(Return(None))
                 /\ UNCHANGED <<cloned_file, audio_path, log>>
       ELSE /\ result' = Outcome(Return(None))
            /\ log' = Append(log, "error:no_audio_segments")
            /\ UNCHANGED <<cloned_file, audio_path>>
    /\ pc' = "done"
    /\ UNCHANGED <<entry, args, speech_text, ref_audio_path, text_chunks,
                   chunk_i, audio_segments, ref_files>>

Next ==
    \/ ConstructPDFToSpeech
    \/ ConstructElevenLabsVoiceCloning
    \/ ConstructPDFToSpeechWithVoiceCloning
    \/ CallExtractPageText
    \/ CallTextToSpeech
    \/ CallProcessPdfPage
    \/ ExtractPageText
    \/ CleanText
    \/ WriteSidecar
    \/ TtsGuard
    \/ TtsConvert
    \/ TtsSave
    \/ TtsPlay
    \/ CallCloneVoiceAndGenerate
    \/ CallProcessTextWithVoiceClone
    \/ CallPrepareReferenceAudio
    \/ AppCoquiExtract
    \/ LoadText
    \/ CloneGuard
    \/ PrepareReference
    \/ SynthesizeChunk
    \/ CombineSegments

Spec == Init /\ [][Next]_vars

(***************************************************************************)
(* Two invocations of process_pdf_page, for different pages of one PDF,    *)
(* interleaved on one output directory.  Each step of an invocation is one *)
(* action; save(audio, path) opens the file for writing, which empties it, *)
(* and then writes the audio from the start of the file.                   *)
(***************************************************************************)
OtherProsePage == <<"e", "f", ".">>
RacePdf == [exists |-> TRUE, corrupt |-> FALSE,
            pages |-> <<ProsePage, OtherProsePage>>]

\* the invocation that is not p
Other(p) == CHOOSE q \in Procs : q # p

\* a file holding old, written from its start with new
WriteFromStart(old, new) ==
    new \o SubSeq(old, Len(new) + 1, Len(old))

\* invocation p ends with out; process_pdf_page turns an exception into None
RaceEnd(p, out) ==
    runs' = [runs EXCEPT ![p].pc = "done",
                         ![p].result = IF out.kind = "raise"
                                       THEN process_pdf_page_except(out.exc)
                                       ELSE out]

RaceUnchanged ==
    UNCHANGED <<fn_vars, env_vars, clone_vars, entry, pc, args, speech_text,
                audio_path, log, result, raw_text, cleaned_text, audio>>

RaceInit ==
    /\ FnIdle
    /\ entry = "none"
    /\ pc = "idle"
    /\ args = NoArgs
    /\ raw_text = <<>>
    /\ cleaned_text = <<>>
    /\ speech_text = <<>>
    /\ audio = <<>>
    /\ audio_path = None
    /\ sidecar \in InitialSidecars
    /\ audio_file \in InitialAudioFiles
    /\ log = <<>>
    /\ result = Pending
    /\ ref_audio_path = None
    /\ text_chunks = <<>>
    /\ chunk_i = 0
    /\ audio_segments = <<>>
    /\ ref_files = {}
    /\ cloned_file = Absent
    /\ api_key = TRUE
    /\ converter = "PDFToSpeech"
    /\ runs = [p \in Procs |-> IdleRun]

\* process_pdf_page is invoked, for a page the other invocation is not for
RaceCall ==
    /\ \E p \in Procs, n \in 1..(MaxPages + 1), v \in VoiceIds, play \in BOOLEAN :
        /\ runs[p].pc = "idle"
        /\ runs[Other(p)].page_number # n
        /\ runs' = [runs EXCEPT ![p] = [IdleRun EXCEPT !.pc = "extract",
                                                       !.page_number = n,
                                                       !.voice_id = v,
                                                       !.play_audio = play]]
    /\ RaceUnchanged
    /\ UNCHANGED <<sidecar, audio_file>>

\* extract_page_text and the test of raw_text
RaceExtract ==
    /\ \E p \in Procs :
        /\ runs[p].pc = "extract"
        /\ LET out == extract_page_text(RacePdf, runs[p].page_number).out
           IN  IF out.kind = "raise"
               THEN RaceEnd(p, out)
               ELSE IF out.value.s = <<>>
               THEN RaceEnd(p, Return(None))
               ELSE runs' = [runs EXCEPT ![p].pc = "clean",
                                         ![p].raw_text = out.value.s]
    /\ RaceUnchanged
    /\ UNCHANGED <<sidecar, audio_file>>

\* clean_text and the test of cleaned_text
RaceClean ==
    /\ \E p \in Procs :
        /\ runs[p].pc = "clean"
        /\ LET c == clean_text(runs[p].raw_text)
           IN  IF c = <<>>
               THEN RaceEnd(p, Return(None))
               ELSE runs' = [runs EXCEPT ![p].pc = "sidecar",
                                         ![p].cleaned_text = c]
    /\ RaceUnchanged
    /\ UNCHANGED <<sidecar, audio_file>>

\* the cleaned text is saved to the sidecar file of the page
RaceWriteSidecar ==
    /\ \E p \in Procs :
        /\ runs[p].pc = "sidecar"
        /\ sidecar' = write_sidecar(sidecar, runs[p].page_number,
                                    runs[p].cleaned_text)
        /\ runs' = [runs EXCEPT ![p].pc = "tts_guard"]
    /\ RaceUnchanged
    /\ UNCHANGED audio_file

\* text_to_speech: the checks of text and voice_id
RaceTtsGuard ==
    /\ \E p \in Procs :
        /\ runs[p].pc = "tts_guard"
        /\ LET g == text_to_speech_guard(runs[p].cleaned_text, runs[p].voice_id)
           IN  IF g = "ok"
               THEN runs' = [runs EXCEPT ![p].pc = "convert"]
               ELSE RaceEnd(p, Raise(g))
    /\ RaceUnchanged
    /\ UNCHANGED <<sidecar, audio_file>>

\* text_to_speech: the call of the hosted API, which may fail
RaceConvert ==
    /\ \E p \in Procs, ok \in BOOLEAN :
        /\ runs[p].pc = "convert"
        /\ IF ok /\ api_key
           THEN runs' = [runs EXCEPT ![p].pc = "save_open",
                                     ![p].audio = runs[p].cleaned_text]
           ELSE RaceEnd(p, text_to_speech_except("ApiError"))
    /\ RaceUnchanged
    /\ UNCHANGED <<sidecar, audio_file>>

\* save(audio, path): the file is opened for writing, which may fail
RaceSaveOpen ==
    /\ \E p \in Procs, ok \in BOOLEAN :
        /\ runs[p].pc = "save_open"
        /\ IF ok
           THEN /\ audio_file' = File(<<>>)
                /\ runs' = [runs EXCEPT ![p].pc = "save_write"]
           ELSE /\ audio_file' = audio_file
                /\ RaceEnd(p, text_to_speech_except("SaveError"))
    /\ RaceUnchanged
    /\ UNCHANGED sidecar

\* save(audio, path): the audio is written from the start of the file
RaceSaveWrite ==
    /\ \E p \in Procs :
        /\ runs[p].pc = "save_write"
        /\ audio_file' = File(WriteFromStart(audio_file.data, runs[p].audio))
        /\ runs' = [runs EXCEPT ![p].pc = "play"]
    /\ RaceUnchanged
    /\ UNCHANGED sidecar

\* the audio is played if requested, which may fail; then audio_path, the
\* fixed name, is returned
RacePlay ==
    /\ \E p \in Procs, ok \in BOOLEAN :
        /\ runs[p].pc = "play"
        /\ IF runs[p].play_audio /\ ~ok
           THEN RaceEnd(p, text_to_speech_except("PlayError"))
           ELSE RaceEnd(p, Return(Path(AudioFileName)))
    /\ RaceUnchanged
    /\ UNCHANGED <<sidecar, audio_file>>

RaceNext ==
    \/ RaceCall
    \/ RaceExtract
    \/ RaceClean
    \/ RaceWriteSidecar
    \/ RaceTtsGuard
    \/ RaceConvert
    \/ RaceSaveOpen
    \/ RaceSaveWrite
    \/ RacePlay

SpecRace == RaceInit /\ [][RaceNext]_vars

(***************************************************************************)
(* Claims about the chunker.                                               *)
(***************************************************************************)
\* whitespace normalization: runs collapsed to one space, ends trimmed
WhitespaceNormalized(s) == strip(SubRuns(s, Space, 1, <<" ">>))

\* chunk c is one sentence of the text, longer than the limit, unsplit
IsLongSingleSentence(c, t, limit) ==
    \E j \in 1..Len(split_sentences(t)) :
        /\ Len(split_sentences(t)[j]) > limit
        /\ strip(split_sentences(t)[j]) = c

\* C1: every chunk returned by split_text_into_chunks(T, L) has at most L
\* characters, unless it is exactly one sentence whose own length exceeds L,
\* which is passed through unsplit and untruncated.
C1_ChunkWithinLimit ==
    fn_pc = "chunked" =>
        \A i \in 1..Len(out_chunks) :
            \/ Len(out_chunks[i]) <= in_max_chars
            \/ IsLongSingleSentence(out_chunks[i], in_text, in_max_chars)

\* a text of two sentences that fit one chunk and a third that exceeds the
\* limit alone
C1_Witness ==
    /\ fn_pc = "chunked"
    /\ Len(split_sentences(in_text)) >= 3
    /\ Len(out_chunks) = 2
    /\ Len(out_chunks[1]) <= in_max_chars
    /\ Len(out_chunks[2]) > in_max_chars

\* C2: the chunks joined in order (by a space) and whitespace-normalized
\* equal the text whitespace-normalized: no non-whitespace character is
\* lost, duplicated or reordered.
C2_ChunksRecoverText ==
    fn_pc = "chunked" =>
        WhitespaceNormalized(join(out_chunks)) = WhitespaceNormalized(in_text)

\* three chunks out of a text with a whitespace run to normalize
C2_Witness ==
    /\ fn_pc = "chunked"
    /\ Len(out_chunks) >= 3
    /\ WhitespaceNormalized(in_text) # in_text

(***************************************************************************)
(* Claims about the normalizer.                                            *)
(***************************************************************************)
\* C3: clean_text is idempotent: clean_text(clean_text(T)) = clean_text(T).
C3_CleanIdempotent ==
    fn_pc = "recleaned" => out_recleaned = out_cleaned

\* Hello World 123 Test... End
ScenarioExpected ==
    <<"H","e","l","l","o"," ","W","o","r","l","d"," ","1","2","3"," ",
      "T","e","s","t",".",".","."," ","E","n","d">>

\* C4: for the raw input "hello World123 test...   end" clean_text returns
\* exactly "Hello World 123 Test... End".
C4_ScenarioOutput ==
    (fn_pc = "cleaned" /\ in_text = ScenarioRaw) => out_cleaned = ScenarioExpected

(***************************************************************************)
(* Claims about the extractor, the synthesis stages and the pipelines.     *)
(***************************************************************************)
\* event e is in the log
Logged(e) == \E i \in 1..Len(log) : log[i] = e

\* the synthesis backends were not invoked: no hosted API call, no
\* reference preparation, no local model call
NoBackendCall ==
    /\ ~Logged("api.convert")
    /\ ~Logged("prepare_reference_audio")
    /\ ~Logged("tts.tts")

\* extract_page_text was called on its own, on a readable PDF, and ended
ExtractDone ==
    /\ entry = "extract_page_text"
    /\ pc = "done"
    /\ args.pdf.exists
    /\ ~args.pdf.corrupt

\* C5: extract_page_text on an existing PDF with a page number above the
\* page count ends in the OutOfRange failure, never returns page text, and
\* the caller can tell the outcome from the empty string of a page without
\* a text layer.
C5_OutOfRangeFails ==
    (ExtractDone /\ args.page_number > Len(args.pdf.pages)) =>
        /\ result = Raise("IndexError")
        /\ result # Return(Str(<<>>))

\* C6: extract_page_text on an existing PDF with an in-range page that has
\* no text layer returns the empty string as a normal result: nothing is
\* raised, to the caller or inside.
C6_NoTextLayerReturnsEmpty ==
    (/\ ExtractDone
     /\ args.page_number \in 1..Len(args.pdf.pages)
     /\ args.pdf.pages[args.page_number] = NoTextLayer) =>
        /\ result = Return(Str(<<>>))
        /\ Logged("warn:no_text")
        /\ ~Logged("error:extract")

\* the second page of a two-page document has no text layer, the first has
C6_Witness ==
    /\ ExtractDone
    /\ args.page_number = 2
    /\ args.pdf.pages = <<ProsePage, NoTextLayer>>
    /\ result = Return(Str(<<>>))

\* a synthesis stage was called on its own with an empty or
\* whitespace-only text
StageGivenBlankText ==
    /\ entry \in {"text_to_speech", "clone_voice_and_generate"}
    /\ pc # "idle"
    /\ strip(speech_text) = <<>>

\* C7, as claimed: given empty or whitespace-only text, text_to_speech and
\* clone_voice_and_generate each yield a null result, without raising to the
\* caller and without invoking the synthesis backend.
C7_BlankTextYieldsNull ==
    StageGivenBlankText =>
        /\ NoBackendCall
        /\ pc = "done" => result = Return(None)

\* C7, amended: given empty or whitespace-only text, text_to_speech and
\* clone_voice_and_generate each raise ValueError to their caller without
\* invoking the synthesis backend; the null result is that of the pipelines,
\* which return None on an empty cleaned text before they call the stage.
C7_BlankTextRaises ==
    /\ StageGivenBlankText =>
        /\ NoBackendCall
        /\ pc = "done" => result = Raise("ValueError")
    /\ (/\ entry = "process_pdf_page"
        /\ Logged("clean_text")
        /\ cleaned_text = <<>>) =>
        /\ NoBackendCall
        /\ ~Logged("text_to_speech")
        /\ pc = "done"
        /\ result = Return(None)
    /\ (/\ entry = "process_text_with_voice_clone"
        /\ Logged("read:text_file")
        /\ strip(args.text_file.content) = <<>>) =>
        /\ NoBackendCall
        /\ ~Logged("clone_voice_and_generate")
        /\ pc = "done"
        /\ result = Return(None)

\* clone_voice_and_generate was given a whitespace-only text and a
\* reference recording that loads
C7_Witness ==
    /\ entry = "clone_voice_and_generate"
    /\ pc = "done"
    /\ speech_text = <<" ", "\n">>
    /\ args.reference_audio.exists
    /\ args.reference_audio.torchaudio
    /\ result = Raise("ValueError")

\* C8: when the text file does not exist, process_text_with_voice_clone
\* returns None, and in that run no file is read, prepare_reference_audio is
\* never called and the local model is never invoked.
C8_MissingTextFileReturnsNull ==
    (/\ entry = "process_text_with_voice_clone"
     /\ ~args.text_file.exists) =>
        /\ pc \in {"load_text", "done"}
        /\ ~Logged("open:text_file")
        /\ ~Logged("read:text_file")
        /\ ~Logged("clone_voice_and_generate")
        /\ NoBackendCall
        /\ pc = "done" => result = Return(None)

\* the run ended, with a reference recording that would have loaded
C8_Witness ==
    /\ entry = "process_text_with_voice_clone"
    /\ ~args.text_file.exists
    /\ args.reference_audio.exists
    /\ args.reference_audio.torchaudio
    /\ args.reference_audio.postprocess
    /\ pc = "done"
    /\ Logged("load_text_from_file")
    /\ result = Return(None)

\* an error was raised by the API call, by saving or by playback
SynthesisErrorRaised ==
    \/ Logged("error:api.convert")
    \/ Logged("error:save")
    \/ Logged("error:play")

\* C9: for a non-empty text and a non-empty voice identifier, any error
\* raised by the hosted API call, by saving the audio or by playback is
\* caught and turned into a None return value: text_to_speech never
\* propagates an exception to its caller.
C9_SynthesisErrorsCaught ==
    (/\ entry = "text_to_speech"
     /\ pc = "done"
     /\ strip(speech_text) # <<>>
     /\ args.voice_id # "") =>
        /\ result.kind = "return"
        /\ SynthesisErrorRaised => result = Return(None)

\* playback failed after the audio was saved
C9_Witness ==
    /\ entry = "text_to_speech"
    /\ pc = "done"
    /\ strip(speech_text) # <<>>
    /\ args.voice_id # ""
    /\ Logged("save")
    /\ Logged("error:play")
    /\ result = Return(None)

\* the sidecar file of the page holds the cleaned text
SidecarHoldsCleanedText ==
    /\ args.page_number \in DOMAIN sidecar
    /\ sidecar[args.page_number] = cleaned_text

\* C10: in process_pdf_page, whenever extraction and cleaning both yield
\* non-empty text, the sidecar file holding the cleaned text is written
\* before hosted synthesis is invoked and is still on disk with that content
\* when the pipeline returns, whether synthesis succeeded, returned None or
\* raised.
C10_SidecarPersisted ==
    entry = "process_pdf_page" =>
        /\ \A j \in 1..Len(log) :
              log[j] = "text_to_speech" =>
                  /\ \E i \in 1..(j - 1) : log[i] = "write_sidecar"
                  /\ SidecarHoldsCleanedText
        /\ (pc = "done" /\ raw_text # <<>> /\ cleaned_text # <<>>) =>
              /\ Logged("text_to_speech")
              /\ SidecarHoldsCleanedText

\* synthesis raised on a missing voice identifier, and the sidecar file of
\* page 1 holds the cleaned text
C10_Witness ==
    /\ entry = "process_pdf_page"
    /\ pc = "done"
    /\ args.page_number = 1
    /\ args.voice_id = ""
    /\ cleaned_text # <<>>
    /\ Logged("text_to_speech")
    /\ SidecarHoldsCleanedText
    /\ result = Return(None)

\* the number of times event e is in the log
Count(e) == Cardinality({i \in 1..Len(log) : log[i] = e})

\* event a is in the log before every occurrence of event b
Precedes(a, b) ==
    \A j \in 1..Len(log) : log[j] = b => \E i \in 1..(j - 1) : log[i] = a

\* the stages of the two pipelines, in the order of the code
PdfStages == <<"extract_page_text", "clean_text", "text_to_speech">>
CloneStages == <<"load_text_from_file", "clone_voice_and_generate">>

\* every stage is invoked at most once, and only after the stage before it
StagesInOrder(stages) ==
    /\ \A k \in 1..Len(stages) : Count(stages[k]) <= 1
    /\ \A k \in 2..Len(stages) : Precedes(stages[k - 1], stages[k])

\* the hosted synthesis stage of the run failed: it raised on its
\* arguments, or an error was raised inside it
HostedSynthesisFailed ==
    /\ Logged("text_to_speech")
    /\ pc = "done"
    /\ \/ text_to_speech_guard(speech_text, args.voice_id) # "ok"
       \/ SynthesisErrorRaised

\* the cloned synthesis stage of the run failed: it ended without a
\* combined waveform
ClonedSynthesisFailed ==
    /\ Logged("clone_voice_and_generate")
    /\ pc = "done"
    /\ \/ ~Logged("prepare_reference_audio")
       \/ ~Logged("torchaudio.save")
       \/ Logged("error:tts.tts")
       \/ Logged("error:no_audio_segments")

\* C11: in process_pdf_page and process_text_with_voice_clone the stages run
\* strictly in order, and the first stage that returns an empty or null
\* result, or raises, halts the pipeline: no later stage is invoked, no
\* stage is retried, and the overall result is None.
C11_FirstFailureHalts ==
    /\ entry = "process_pdf_page" =>
        /\ StagesInOrder(PdfStages)
        /\ (Logged("extract_page_text") /\ raw_text = <<>>) =>
              /\ pc = "done" /\ result = Return(None)
              /\ ~Logged("clean_text") /\ ~Logged("text_to_speech")
        /\ (Logged("clean_text") /\ cleaned_text = <<>>) =>
              /\ pc = "done" /\ result = Return(None)
              /\ ~Logged("write_sidecar") /\ ~Logged("text_to_speech")
        /\ HostedSynthesisFailed => result = Return(None)
    /\ entry = "process_text_with_voice_clone" =>
        /\ StagesInOrder(CloneStages)
        /\ (Logged("load_text_from_file") /\ speech_text = <<>>) =>
              /\ pc = "done" /\ result = Return(None)
              /\ ~Logged("clone_voice_and_generate")
        /\ ClonedSynthesisFailed => result = Return(None)

\* cleaning a page that holds only its page number left nothing, and the
\* pipeline ended there
C11_Witness ==
    /\ entry = "process_pdf_page"
    /\ pc = "done"
    /\ raw_text = NumberOnlyPage
    /\ Logged("clean_text")
    /\ cleaned_text = <<>>
    /\ args.voice_id # ""
    /\ result = Return(None)

\* C12: when the API key is absent from the environment, constructing the
\* hosted converter (PDFToSpeech, and ElevenLabsVoiceCloning) fails with a
\* configuration error before any pipeline stage runs: no hosted converter
\* exists, no PDF is opened, no sidecar file is written and no synthesis call
\* is made.
C12_MissingKeyFailsFast ==
    ~api_key =>
        /\ converter \notin {"PDFToSpeech", "ElevenLabsVoiceCloning"}
        /\ ~Logged("pdfplumber.open")
        /\ ~Logged("write_sidecar")
        /\ ~Logged("api.convert")

\* no chunk of the run produced non-empty audio
NoAudibleSegment ==
    \A i \in 1..Len(audio_segments) : audio_segments[i] = <<>>

\* the loop over the chunks of clone_voice_and_generate has ended
ChunkLoopEnded ==
    /\ entry \in {"clone_voice_and_generate", "process_text_with_voice_clone"}
    /\ pc = "done"
    /\ chunk_i > Len(text_chunks)
    /\ text_chunks # <<>>

\* C13: in clone_voice_and_generate, if no chunk produced non-empty audio
\* (every chunk was skipped as blank, or the model returned an empty waveform
\* for every chunk), the result is None and no output audio file is written;
\* an audio file is written only when at least one chunk yielded non-empty
\* audio.
C13_NoAudioNoFile ==
    /\ (ChunkLoopEnded /\ NoAudibleSegment) =>
          /\ result = Return(None)
          /\ ~Logged("sf.write")
    /\ Logged("sf.write") => ~NoAudibleSegment

\* prepare_reference_audio, called on its own with an existing file, ended
PrepareDone ==
    /\ entry = "prepare_reference_audio"
    /\ pc = "done"
    /\ args.reference_audio.exists

\* all three ways of decoding the reference failed
AllMethodsFailed ==
    /\ ~args.reference_audio.torchaudio
    /\ ~args.reference_audio.soundfile
    /\ ~args.reference_audio.ffmpeg

\* the three methods are tried in the fixed order, each at most once, a
\* later one exactly when every earlier one failed
CascadeInOrder ==
    /\ Count("torchaudio.load") = 1
    /\ Count("soundfile.read") <= 1
    /\ Count("convert_audio_format") <= 1
    /\ Logged("soundfile.read") <=> ~args.reference_audio.torchaudio
    /\ Logged("convert_audio_format") <=>
          (~args.reference_audio.torchaudio /\ ~args.reference_audio.soundfile)
    /\ Logged("torchaudio.load:converted") <=> Logged("convert_audio_format")
    /\ Precedes("torchaudio.load", "soundfile.read")
    /\ Precedes("soundfile.read", "convert_audio_format")
    /\ Precedes("convert_audio_format", "torchaudio.load:converted")

\* C14, as stated: for an existing reference file prepare_reference_audio
\* tries direct decode, alternate decoder, transcode-then-decode in that
\* order, a later one only after every earlier one failed and none after the
\* first success, and it returns None only if all three failed.
C14_NullOnlyIfAllFailed ==
    PrepareDone =>
        /\ CascadeInOrder
        /\ result = Return(None) => AllMethodsFailed

\* C14, amended: the order of the cascade as stated; None is returned
\* exactly when all three methods failed or the processing after a
\* successful decode (downmix, resample, save) raised.
C14_CascadeThenProcess ==
    PrepareDone =>
        /\ CascadeInOrder
        /\ result = Return(None) <=>
              (AllMethodsFailed \/ ~args.reference_audio.postprocess)
        /\ result # Return(None) => result = Return(Path(ProcessedFileName))

\* the second method decoded the file the first could not read, the third
\* was not tried, and the processing after it raised
C14_Witness ==
    /\ PrepareDone
    /\ ~args.reference_audio.torchaudio
    /\ args.reference_audio.soundfile
    /\ Logged("soundfile.read")
    /\ ~Logged("convert_audio_format")
    /\ Logged("error:prepare_reference")
    /\ result = Return(None)

\* a synthesis stage of the run was invoked and the run ended with None or
\* with an exception
SynthesisStageFailed ==
    /\ Logged("text_to_speech") \/ Logged("clone_voice_and_generate")
    /\ pc = "done"
    /\ result = Return(None) \/ result.kind = "raise"

\* the run wrote an audio output file
AudioFileWritten ==
    \/ Logged("save") /\ ~Logged("error:save")
    \/ Logged("sf.write")

\* C15: whenever a synthesis stage fails (text_to_speech or
\* clone_voice_and_generate returns None or raises), that run has written no
\* audio output file, also when playback fails after saving and when the
\* local model fails on a chunk after earlier chunks succeeded.
C15_FailedRunWritesNoAudio ==
    SynthesisStageFailed => ~AudioFileWritten

\* the "Extract & Convert" handler of the Coqui engine ended
CoquiExtractDone ==
    /\ entry = "app.coqui_extract"
    /\ pc = "done"

\* C16: the cloning-preparation pipeline (engine "Coqui TTS", then "Extract
\* & Convert") performs the text extraction of the selected PDF page and
\* nothing else: it completes without raising, runs no cleaning and no
\* synthesis, and yields the page's raw text.
C16_CoquiExtractsRawText ==
    CoquiExtractDone =>
        /\ result.kind = "return"
        /\ result = extract_page_text(args.pdf, args.page_number).out
        /\ Logged("extract_page_text")
        /\ ~Logged("clean_text")
        /\ ~Logged("text_to_speech")
        /\ ~Logged("clone_voice_and_generate")

\* invocation p has written its sidecar file
SidecarWritten(p) ==
    runs[p].pc \in {"tts_guard", "convert", "save_open", "save_write", "play"}
    \/ (runs[p].pc = "done" /\ runs[p].cleaned_text # <<>>)

\* invocation p ended with the audio path as its result
RunSucceeded(p) ==
    /\ runs[p].pc = "done"
    /\ runs[p].result = Return(Path(AudioFileName))

\* C17: two invocations of process_pdf_page for different pages, interleaved
\* on one output directory, race on the fixed-name audio file and not on the
\* sidecar files: the sidecar file of each page holds the cleaned text of its
\* own invocation once written, whatever the other invocation does, and every
\* invocation that saved its audio ends with the same fixed path or with
\* None, never with an exception.  That both end with that path while the
\* file holds the audio of one of them is the state C17_Witness.
C17_SidecarsApartSamePath ==
    \A p \in Procs :
        /\ SidecarWritten(p) =>
              /\ sidecar_key(runs[p].page_number) \in DOMAIN sidecar
              /\ sidecar[sidecar_key(runs[p].page_number)] = runs[p].cleaned_text
        /\ runs[p].pc = "done" =>
              runs[p].result \in {Return(None), Return(Path(AudioFileName))}
        /\ RunSucceeded(p) => audio_file.present

\* both invocations, for different pages, ended with the same audio path and
\* neither with an error, and the file holds the audio of the first alone
C17_Witness ==
    /\ RunSucceeded(1)
    /\ RunSucceeded(2)
    /\ runs[1].page_number # runs[2].page_number
    /\ runs[1].audio # runs[2].audio
    /\ audio_file = File(runs[1].audio)

\* extract_page_text returned the text of some page: a non-empty string
ReturnedPageText ==
    /\ ExtractDone
    /\ result.kind = "return"
    /\ result.value.s # <<>>

\* C18: extract_page_text returns the text of a page only when the page
\* number p satisfies 1 <= p <= page count, and then it is the text of
\* exactly the p-th page; for every page number below 1 it returns no page's
\* text.
C18_OnlyInRangePageText ==
    /\ ReturnedPageText =>
          /\ args.page_number \in 1..Len(args.pdf.pages)
          /\ result.value.s = args.pdf.pages[args.page_number]
    /\ (ExtractDone /\ args.page_number < 1) => ~ReturnedPageText

====
